---- MODULE Spec2Model ----
(***************************************************************************)
(* A model of radiate's recurrent core:                                    *)
(*   - the LSTM cell of models/neat/layers/lstm.rs (LSTMState ledger,      *)
(*     forward, step_back, backward, reset, set_trace_index, clone,        *)
(*     crossover), and                                                     *)
(*   - the graph node of models/neat/neuron.rs (is_ready, reset_node,      *)
(*     clone).                                                             *)
(* Vec<f32> values are sequences of integers; Option<T> is a sequence of   *)
(* length 0 (None) or 1 (Some).  The Dense sub-layers, vectorops and the   *)
(* activation functions live outside these two files: a Dense call is a    *)
(* nondeterministic choice among "failed" and a few vectors of the right   *)
(* length.                                                                 *)
(***************************************************************************)
EXTENDS Integers, Sequences, FiniteSets

VARIABLES
    \* ---- LSTM (lstm.rs:83-95)
    input_size, memory_size, output_size,
    memory, hidden, states,
    \* ---- history of the calls made on the cell (not program state)
    last,        \* the most recent call: its name, arguments and result
    calls,       \* forward calls since construction or the last reset
    dropped,     \* those of them that returned before the state update
    unwind,      \* progress of a seed-then-unwind sequence of step_back calls
    chain,       \* t: the step unwound by the backward or step_back call made
                 \* last, if it returned a vector and no forward, seed or
                 \* reset followed it; read: the previous derivatives the
                 \* most recent backward or step_back call read; c_old: the
                 \* memory value it took from the ledger
    \* ---- Neuron (neuron.rs:21-31)
    innov, curr_value, prev_value, cell_state, node_type, activation,
    outgoing, incoming,
    \* ---- history of the calls made on the neuron (not program state)
    nlast,       \* the most recent call on the neuron and its result (for
                 \* reset_node: whether a slot was filled when it was called;
                 \* for clone: the neuron produced)
    fired        \* is_ready calls that returned true since the last reset_node

cellVars   == <<input_size, memory_size, output_size, memory, hidden, states>>
histVars   == <<last, calls, dropped, unwind, chain>>
neuronVars == <<innov, curr_value, prev_value, cell_state, node_type,
                activation, outgoing, incoming>>
nhistVars  == <<nlast, fired>>
vars       == <<cellVars, histVars, neuronVars, nhistVars>>

-----------------------------------------------------------------------------
(* Bounds of the model.                                                    *)

\* forward calls made on the cell between two resets
MaxFwd == 2
\* seed, step_back and backward are called only while d_prev_hidden and
\* d_prev_memory hold fewer entries than this
MaxBack == 3

\* is_ready calls that return true within one tick
MaxFire == 2

\* (input_size, memory_size, output_size) of the cells explored; <<2,3,1>>
\* is the cell of the specification's scenario.
Shapes == { <<2, 3, 1>>, <<1, 1, 2>> }

-----------------------------------------------------------------------------
(* Option<T>                                                               *)

None == <<>>
Some(x) == <<x>>
IsSome(o) == Len(o) = 1
Unwrap(o) == o[1]

\* Mutant of Get: the index is clamped to the last element instead of
\* being rejected.
Get_clamped(v, i) ==
    IF Len(v) = 0 \/ i < 0 THEN None
    ELSE Some(v[IF i < Len(v) THEN i + 1 ELSE Len(v)])

(* Vec<T>::get(i) and Vec<T>::last(), zero-based, bounds-checked.          *)
Get(v, i) == IF i >= 0 /\ i < Len(v) THEN Some(v[i + 1]) ELSE None
Last(v) == IF Len(v) > 0 THEN Some(v[Len(v)]) ELSE None

(* vec![0.0; n]                                                            *)
Zeros(n) == [k \in 1..n |-> 0]
Const(n, x) == [k \in 1..n |-> x]

-----------------------------------------------------------------------------
(* Activation functions and vectorops, on integers.                        *)

Tahn(x) == IF x > 1 THEN 1 ELSE IF x < -1 THEN -1 ELSE x

activate(act, x) ==
    IF act = "Tahn" THEN Tahn(x)
    ELSE IF x > 1 THEN 1 ELSE IF x < 0 THEN 0 ELSE x

deactivate(act, y) ==
    IF act = "Tahn" THEN 1 - y * y ELSE y * (1 - y)

element_multiply(one, two) == [k \in 1..Len(one) |-> one[k] * two[k]]
element_add(one, two) == [k \in 1..Len(one) |-> one[k] + two[k]]
product(one, two) == [k \in 1..Len(one) |-> one[k] * two[k]]
element_activate(v, act) == [k \in 1..Len(v) |-> activate(act, v[k])]
element_deactivate(v, act) == [k \in 1..Len(v) |-> deactivate(act, v[k])]

(* v[from..to) of a Vec, zero-based.                                       *)
Slice(v, from, to) == [k \in 1..(to - from) |-> v[from + k]]

-----------------------------------------------------------------------------
(* Dense sub-layers: what a call can return.                               *)

\* A Dense call returns None or a vector of the layer's output length
\* (forward) or input length (backward); the values it returns are drawn
\* where the call is made (ForwardResults, GateResults).

-----------------------------------------------------------------------------
(* LSTMState                                                               *)

LSTMState_new ==
    [ index         |-> 0,
      f_gate_output |-> <<>>,
      i_gate_output |-> <<>>,
      s_gate_output |-> <<>>,
      o_gate_output |-> <<>>,
      memory_states |-> <<>>,
      errors        |-> <<>>,
      d_prev_memory |-> <<>>,
      d_prev_hidden |-> <<>> ]

\* Mutant of update_forward: the output-gate snapshot is not recorded.
update_forward_skips_o(st, fg, ig, sg, og, mem_state) ==
    [ st EXCEPT !.f_gate_output = Append(@, fg),
                !.i_gate_output = Append(@, ig),
                !.s_gate_output = Append(@, sg),
                !.memory_states = Append(@, mem_state),
                !.index = @ + 1 ]

\* Mutant of update_forward: the step is recorded but index is not advanced.
update_forward_keeps_index(st, fg, ig, sg, og, mem_state) ==
    [ st EXCEPT !.f_gate_output = Append(@, fg),
                !.i_gate_output = Append(@, ig),
                !.s_gate_output = Append(@, sg),
                !.o_gate_output = Append(@, og),
                !.memory_states = Append(@, mem_state) ]

update_forward(st, fg, ig, sg, og, mem_state) ==
    [ st EXCEPT !.f_gate_output = Append(@, fg),
                !.i_gate_output = Append(@, ig),
                !.s_gate_output = Append(@, sg),
                !.o_gate_output = Append(@, og),
                !.memory_states = Append(@, mem_state),
                !.index = @ + 1 ]

update_backward(st, errors) ==
    [ st EXCEPT !.errors = Append(@, errors) ]

-----------------------------------------------------------------------------
(* LSTM::forward (lstm.rs:205-234)                                         *)

\* lines 222-224: memory = memory * f_output + g_output * i_output
forward_memory(mem, f_output, i_output, g_output) ==
    element_add(element_multiply(mem, f_output),
                element_multiply(g_output, i_output))

\* line 225: current_output = o_output * tanh(memory), the updated memory
forward_hidden(o_output, mem) ==
    element_multiply(o_output, element_activate(mem, "Tahn"))

\* Mutant of forward: the projection gate is asked before the cell is
\* updated, so a failure of any of the five gates leaves the cell as it was.
forward_all_or_nothing(mem, hid, st, f, i, o, g, v) ==
    IF ~IsSome(f) \/ ~IsSome(i) \/ ~IsSome(o) \/ ~IsSome(g) \/ ~IsSome(v)
    THEN [ret |-> None, memory |-> mem, hidden |-> hid, states |-> st]
    ELSE
        LET new_memory == forward_memory(mem, Unwrap(f), Unwrap(i), Unwrap(g))
            current_output == forward_hidden(Unwrap(o), new_memory)
        IN  [ ret    |-> v,
              memory |-> new_memory,
              hidden |-> current_output,
              states |-> update_forward(st, Unwrap(f), Unwrap(i), Unwrap(g),
                                        Unwrap(o), new_memory) ]

\* Mutant of forward: the ledger entry holds the memory as it was before
\* the step.
forward_records_old_memory(mem, hid, st, f, i, o, g, v) ==
    IF ~IsSome(f) \/ ~IsSome(i) \/ ~IsSome(o) \/ ~IsSome(g)
    THEN [ret |-> None, memory |-> mem, hidden |-> hid, states |-> st]
    ELSE
        LET new_memory == forward_memory(mem, Unwrap(f), Unwrap(i), Unwrap(g))
            current_output == forward_hidden(Unwrap(o), new_memory)
        IN  [ ret    |-> v,
              memory |-> new_memory,
              hidden |-> current_output,
              states |-> update_forward(st, Unwrap(f), Unwrap(i), Unwrap(g),
                                        Unwrap(o), mem) ]

\* The whole call.  f, i, o, g, v are what the five Dense::forward calls
\* return; the result is the return value and the cell's fields afterwards.
forward(mem, hid, st, f, i, o, g, v) ==
    IF ~IsSome(f) \/ ~IsSome(i) \/ ~IsSome(o) \/ ~IsSome(g)
    THEN [ret |-> None, memory |-> mem, hidden |-> hid, states |-> st]
    ELSE
        LET new_memory == forward_memory(mem, Unwrap(f), Unwrap(i), Unwrap(g))
            current_output == forward_hidden(Unwrap(o), new_memory)
        IN  [ ret    |-> v,
              memory |-> new_memory,
              hidden |-> current_output,
              states |-> update_forward(st, Unwrap(f), Unwrap(i), Unwrap(g),
                                        Unwrap(o), new_memory) ]

-----------------------------------------------------------------------------
(* LSTM::step_back (lstm.rs:125-194)                                       *)

\* Mutant of input_error: the hidden part of dx is returned instead.
input_error_head(dx, mem_size) == Slice(dx, 0, mem_size)

\* line 193: dx[self.memory_size..], the error of the layer's own input
input_error(dx, mem_size) == Slice(dx, mem_size, Len(dx))

\* gb holds what the five Dense::backward calls return (fields v, f, i, g, o)
step_back(st, in_size, mem_size, errors, index, gb) ==
    LET dh_next == Last(st.d_prev_hidden)
        dc_next == Last(st.d_prev_memory)
        c_old   == Get(st.memory_states, index)
        read    == <<dh_next, dc_next>>
        none    == [ret |-> None, states |-> st, read |-> read, c_old |-> c_old]
    IN
    IF ~IsSome(dh_next) \/ ~IsSome(dc_next) \/ ~IsSome(c_old) THEN none
    ELSE IF ~IsSome(gb.v) THEN none
    ELSE
        LET mem_t == Unwrap(Get(st.memory_states, index))
            o_t   == Unwrap(Get(st.o_gate_output, index))
            f_t   == Unwrap(Get(st.f_gate_output, index))
            i_t   == Unwrap(Get(st.i_gate_output, index))
            s_t   == Unwrap(Get(st.s_gate_output, index))
            dh    == element_multiply(Unwrap(gb.v), Unwrap(dh_next))
            dho   == element_multiply(
                        element_multiply(element_activate(mem_t, "Tahn"), dh),
                        element_deactivate(o_t, "Sigmoid"))
            dc    == element_add(
                        element_multiply(product(o_t, dh),
                                         element_deactivate(mem_t, "Tahn")),
                        Unwrap(dc_next))
            dhf   == element_multiply(product(Unwrap(c_old), dc),
                                      element_deactivate(f_t, "Sigmoid"))
            dhi   == element_multiply(product(s_t, dc),
                                      element_deactivate(i_t, "Sigmoid"))
            dhc   == element_multiply(product(i_t, dc),
                                      element_deactivate(s_t, "Tahn"))
        IN
        IF ~IsSome(gb.f) \/ ~IsSome(gb.i) \/ ~IsSome(gb.g) \/ ~IsSome(gb.o)
        THEN none
        ELSE
            LET dx == element_add(element_add(element_add(element_add(
                          Zeros(in_size + mem_size), Unwrap(gb.f)),
                          Unwrap(gb.i)), Unwrap(gb.g)), Unwrap(gb.o))
                new_dh_next == Slice(dx, 0, mem_size)
                new_dc_next == product(f_t, dc)
            IN  [ ret    |-> Some(input_error(dx, mem_size)),
                  read   |-> read,
                  c_old  |-> c_old,
                  states |-> [ st EXCEPT
                                 !.d_prev_hidden = Append(@, new_dh_next),
                                 !.d_prev_memory = Append(@, new_dc_next) ] ]

\* Mutant of backward: the zero vector is pushed onto d_prev_memory only.
backward_pushes_memory_only(st, in_size, mem_size, errors, gb) ==
    LET pushed == [ st EXCEPT !.d_prev_memory = Append(@, Zeros(mem_size)) ]
    IN  step_back(pushed, in_size, mem_size, errors, pushed.index, gb)

\* Mutant of backward: no zero derivatives are pushed before the step at
\* states.index is unwound.
backward_without_push(st, in_size, mem_size, errors, gb) ==
    step_back(st, in_size, mem_size, errors, st.index, gb)

\* LSTM::backward (lstm.rs:240-246): push zero derivatives, then unwind the
\* step at states.index
backward(st, in_size, mem_size, errors, gb) ==
    LET pushed == [ st EXCEPT !.d_prev_memory = Append(@, Zeros(mem_size)),
                              !.d_prev_hidden = Append(@, Zeros(mem_size)) ]
    IN  step_back(pushed, in_size, mem_size, errors, pushed.index, gb)

\* LSTM::set_trace_index (lstm.rs:281-288)
set_trace_index(st, index) == [ st EXCEPT !.index = index ]

\* Mutant of reset: hidden is left as it was.
reset_keeps_hidden(self) ==
    [ self EXCEPT !.states = LSTMState_new,
                  !.memory = Zeros(self.memory_size) ]

\* LSTM::reset (lstm.rs:250-259); the five Dense::reset calls act on the
\* gates only
reset(self) ==
    [ self EXCEPT !.states = LSTMState_new,
                  !.memory = Zeros(self.memory_size),
                  !.hidden = Zeros(self.memory_size) ]

\* Mutant of clone: the ledger of the source is carried over.
clone_keeps_ledger(self) ==
    [ input_size  |-> self.input_size,
      memory_size |-> self.memory_size,
      output_size |-> self.output_size,
      memory      |-> Zeros(self.memory_size),
      hidden      |-> Zeros(self.memory_size),
      states      |-> self.states ]

\* impl Clone for LSTM (lstm.rs:320-334); Genome::crossover builds the child
\* the same way from its first parent (lstm.rs:349-361)
clone(self) ==
    [ input_size  |-> self.input_size,
      memory_size |-> self.memory_size,
      output_size |-> self.output_size,
      memory      |-> Zeros(self.memory_size),
      hidden      |-> Zeros(self.memory_size),
      states      |-> LSTMState_new ]

crossover(child, gates_ok) ==
    IF gates_ok THEN Some(clone(child)) ELSE None

-----------------------------------------------------------------------------
(* The calls a driver makes on one cell.                                   *)

\* vectors handed to forward / to backward and step_back: one of the
\* configured length and one that is too long
InputVecs == { Const(input_size, 1), Const(input_size + 1, 1) }
ErrorVecs == { Const(output_size, 1), Const(output_size + 1, 1) }

\* time indices handed to step_back and set_trace_index
Indices == 0..MaxFwd

\* What the five Dense::forward calls of one forward call return: two
\* runs in which all succeed (every gate all ones; every gate a different
\* vector), and runs in which the first internal gate, the last internal
\* gate or the projection gate fails.
ForwardResults ==
    LET ones == Some(Const(memory_size, 1))
        out  == Some(Const(output_size, 1))
        ok   == [f |-> ones, i |-> ones, o |-> ones, g |-> ones, v |-> out]
        P    == [k \in 1..memory_size |-> IF k = 1 THEN 0 ELSE 1]
        Q    == [k \in 1..memory_size |-> IF k = memory_size THEN 0 ELSE 1]
        R    == [k \in 1..memory_size |-> IF k = 2 THEN 0 ELSE 1]
    IN  { ok,
          [ok EXCEPT !.f = Some(P), !.i = Some(R), !.o = Some(Q),
                     !.g = Some(Const(memory_size, -1))],
          [ok EXCEPT !.f = None], [ok EXCEPT !.g = None],
          [ok EXCEPT !.v = None] }

\* What the five Dense::backward calls of one step_back call return: all
\* succeed, or the projection gate or the last internal gate fails.
GateResults ==
    LET ones == Some(Const(input_size + memory_size, 1))
        ok   == [v |-> Some(Const(memory_size, 1)),
                 f |-> ones, i |-> ones, g |-> ones, o |-> ones]
    IN  { ok, [ok EXCEPT !.v = None], [ok EXCEPT !.o = None] }

InternalGatesOk(d) ==
    IsSome(d.f) /\ IsSome(d.i) /\ IsSome(d.o) /\ IsSome(d.g)

AllGatesOk(gb) ==
    IsSome(gb.v) /\ IsSome(gb.f) /\ IsSome(gb.i) /\ IsSome(gb.g) /\ IsSome(gb.o)

Call(op, n, t, ret, inseq) ==
    [op |-> op, n |-> n, t |-> t, ret |-> ret, inseq |-> inseq]

Off == [phase |-> "off", t |-> 0]
Unchained == [t |-> None, read |-> None, c_old |-> None]

Cell ==
    [ input_size  |-> input_size,
      memory_size |-> memory_size,
      output_size |-> output_size,
      memory      |-> memory,
      hidden      |-> hidden,
      states      |-> states ]

neuronFrame == UNCHANGED <<neuronVars, nhistVars>>
shapeFrame  == UNCHANGED <<input_size, memory_size, output_size>>

\* LSTM::new (lstm.rs:102-117)
LSTM_new(shape) ==
    /\ input_size = shape[1]
    /\ memory_size = shape[2]
    /\ output_size = shape[3]
    /\ memory = Zeros(shape[2])
    /\ hidden = Zeros(shape[2])
    /\ states = LSTMState_new
    /\ last = Call("new", 0, 0, None, FALSE)
    /\ calls = 0
    /\ dropped = 0
    /\ unwind = [phase |-> "fwd", t |-> 0]
    /\ chain = Unchained

\* Neuron::new (neuron.rs:40-52) and the edges the network then wires to it
Neuron_new(id, kind, act, out, sources) ==
    /\ innov = id
    /\ curr_value = None
    /\ prev_value = None
    /\ cell_state = None
    /\ node_type = kind
    /\ activation = act
    /\ outgoing = out
    /\ incoming = [src \in sources |-> None]
    /\ nlast = [op |-> "new", ret |-> FALSE]
    /\ fired = 0

Init ==
    /\ \E shape \in Shapes : LSTM_new(shape)
    /\ Neuron_new(0, "Hidden", "Sigmoid", <<>>, {})

Forward ==
    /\ calls < MaxFwd
    /\ \E inputs \in InputVecs, d \in ForwardResults :
          \E r \in {forward(memory, hidden, states, d.f, d.i, d.o, d.g, d.v)} :
              /\ memory' = r.memory
              /\ hidden' = r.hidden
              /\ states' = r.states
              /\ last' = Call("forward", Len(inputs), 0, r.ret, FALSE)
              /\ dropped' = IF InternalGatesOk(d) THEN dropped ELSE dropped + 1
    /\ calls' = calls + 1
    /\ unwind' = IF unwind.phase = "fwd" THEN unwind ELSE Off
    /\ chain' = Unchained
    /\ shapeFrame /\ neuronFrame

\* the driver seeds the unwinding: one zero vector on each derivative list
Seed ==
    /\ Len(states.d_prev_hidden) < MaxBack
    /\ states' = [ states EXCEPT
                     !.d_prev_memory = Append(@, Zeros(memory_size)),
                     !.d_prev_hidden = Append(@, Zeros(memory_size)) ]
    /\ last' = Call("seed", 0, 0, None, FALSE)
    /\ unwind' = IF unwind.phase = "fwd" /\ calls >= 1
                 THEN [phase |-> "unwind", t |-> calls - 1]
                 ELSE Off
    /\ chain' = Unchained
    /\ UNCHANGED <<memory, hidden, calls, dropped>>
    /\ shapeFrame /\ neuronFrame

StepBack ==
    /\ Len(states.d_prev_hidden) < MaxBack
    /\ \E errors \in ErrorVecs, index \in Indices, gb \in GateResults :
          \E r \in {step_back(states, input_size, memory_size,
                               errors, index, gb)} :
          LET inseq == /\ unwind.phase = "unwind"
                       /\ unwind.t = index
                       /\ Len(errors) = output_size
                       /\ AllGatesOk(gb)
          IN  /\ states' = r.states
              /\ last' = Call("step_back", Len(errors), index, r.ret, inseq)
              /\ unwind' = IF inseq /\ index > 0
                           THEN [phase |-> "unwind", t |-> index - 1]
                           ELSE Off
              /\ chain' = [t    |-> IF IsSome(r.ret) THEN Some(index) ELSE None,
                           read |-> r.read, c_old |-> r.c_old]
    /\ UNCHANGED <<memory, hidden, calls, dropped>>
    /\ shapeFrame /\ neuronFrame

Backward ==
    /\ Len(states.d_prev_hidden) < MaxBack
    /\ \E errors \in ErrorVecs, gb \in GateResults :
          \E r \in {backward(states, input_size, memory_size, errors, gb)} :
              /\ states' = r.states
              /\ last' = Call("backward", Len(errors), states.index, r.ret, FALSE)
              /\ chain' = [t    |-> IF IsSome(r.ret) THEN Some(states.index)
                                    ELSE None,
                           read |-> r.read, c_old |-> r.c_old]
    /\ unwind' = Off
    /\ UNCHANGED <<memory, hidden, calls, dropped>>
    /\ shapeFrame /\ neuronFrame

Reset ==
    /\ LET r == reset(Cell)
       IN  /\ states' = r.states
           /\ memory' = r.memory
           /\ hidden' = r.hidden
    /\ last' = Call("reset", Len(states.memory_states),
                    Len(states.d_prev_hidden), None, FALSE)
    /\ calls' = 0
    /\ dropped' = 0
    /\ unwind' = [phase |-> "fwd", t |-> 0]
    /\ chain' = Unchained
    /\ shapeFrame /\ neuronFrame

SetTraceIndex ==
    /\ \E index \in Indices : states' = set_trace_index(states, index)
    /\ last' = Call("set_trace_index", 0, 0, None, FALSE)
    /\ unwind' = Off
    /\ UNCHANGED <<memory, hidden, calls, dropped, chain>>
    /\ shapeFrame /\ neuronFrame

Clone ==
    /\ last' = Call("clone", 0, 0,
                    Some(clone(Cell)), FALSE)
    /\ UNCHANGED <<memory, hidden, states, calls, dropped, unwind, chain>>
    /\ shapeFrame /\ neuronFrame

\* Genome::crossover with this cell as the first parent; gates_ok says
\* whether the five Dense::crossover calls all return a gate
Crossover ==
    /\ \E gates_ok \in BOOLEAN :
          last' = Call("crossover", 0, 0, crossover(Cell, gates_ok), FALSE)
    /\ UNCHANGED <<memory, hidden, states, calls, dropped, unwind, chain>>
    /\ shapeFrame /\ neuronFrame

Next ==
    \/ Forward
    \/ Seed
    \/ StepBack
    \/ Backward
    \/ Reset
    \/ SetTraceIndex
    \/ Clone
    \/ Crossover

Spec == Init /\ [][Next]_vars

-----------------------------------------------------------------------------
(* Neuron (neuron.rs)                                                      *)

\* the node kinds; "Recurrent" is the kind that carries memory
NodeTypes == {"Input", "Hidden", "Recurrent"}
CarriesMemory(kind) == kind = "Recurrent"

\* the nodes an edge can come from, and the values an edge delivers
Sources == {1, 2}
Delivered == {1, 2}

Self ==
    [ innov      |-> innov,
      curr_value |-> curr_value,
      prev_value |-> prev_value,
      cell_state |-> cell_state,
      node_type  |-> node_type,
      activation |-> activation,
      outgoing   |-> outgoing,
      incoming   |-> incoming ]

Becomes(n) ==
    /\ innov' = n.innov
    /\ curr_value' = n.curr_value
    /\ prev_value' = n.prev_value
    /\ cell_state' = n.cell_state
    /\ node_type' = n.node_type
    /\ activation' = n.activation
    /\ outgoing' = n.outgoing
    /\ incoming' = n.incoming

OrZero(o) == IF IsSome(o) THEN Unwrap(o) ELSE 0

RECURSIVE SumOf(_, _)
SumOf(inc, keys) ==
    IF keys = {} THEN 0
    ELSE LET k == CHOOSE x \in keys : TRUE
         IN  OrZero(inc[k]) + SumOf(inc, keys \ {k})

\* NodeType::activate: (new cell_state, new curr_value).  A kind that
\* carries memory folds the sum into its cell state and reads prev_value.
NodeType_activate(kind, inc, act, prev, cell) ==
    LET total == SumOf(inc, DOMAIN inc)
    IN  IF CarriesMemory(kind)
        THEN LET c == (total + OrZero(cell)) % 3
             IN  <<Some(c), Some(activate(act, c + OrZero(prev)))>>
        ELSE <<None, Some(activate(act, total))>>

\* line 70: self.incoming.values().all(|x| x.is_some())
can_activate(inc) == \A k \in DOMAIN inc : IsSome(inc[k])

\* Mutant of is_ready: a node that already holds a value does not fire
\* again.
is_ready_once(n) ==
    IF can_activate(n.incoming) /\ ~IsSome(n.curr_value)
    THEN LET r == NodeType_activate(n.node_type, n.incoming, n.activation,
                                    n.prev_value, n.cell_state)
         IN  [ret |-> TRUE,
              node |-> [n EXCEPT !.curr_value = r[2], !.cell_state = r[1]]]
    ELSE [ret |-> FALSE, node |-> n]

\* Mutant of is_ready: the activation is computed and stored before the
\* readiness test decides the return value.
is_ready_eager(n) ==
    LET r == NodeType_activate(n.node_type, n.incoming, n.activation,
                               n.prev_value, n.cell_state)
    IN  [ret |-> can_activate(n.incoming),
         node |-> [n EXCEPT !.curr_value = r[2], !.cell_state = r[1]]]

\* Neuron::is_ready (neuron.rs:69-78): the value returned and the neuron
\* afterwards
is_ready(n) ==
    IF can_activate(n.incoming)
    THEN LET r == NodeType_activate(n.node_type, n.incoming, n.activation,
                                    n.prev_value, n.cell_state)
         IN  [ret |-> TRUE,
              node |-> [n EXCEPT !.curr_value = r[2], !.cell_state = r[1]]]
    ELSE [ret |-> FALSE, node |-> n]

\* Mutant of reset_node: the incoming slots keep their values.
reset_node_keeps_slots(n) ==
    [ n EXCEPT !.prev_value = n.curr_value,
               !.curr_value = None,
               !.cell_state = None ]

\* Neuron::reset_node (neuron.rs:84-91)
reset_node(n) ==
    [ n EXCEPT !.prev_value = n.curr_value,
               !.curr_value = None,
               !.cell_state = None,
               !.incoming = [k \in DOMAIN @ |-> None] ]

\* Mutant of Neuron_clone: the clone starts with every incoming slot unset.
Neuron_clone_clears_slots(n) ==
    [ innov      |-> n.innov,
      curr_value |-> None,
      prev_value |-> None,
      cell_state |-> None,
      node_type  |-> n.node_type,
      activation |-> n.activation,
      outgoing   |-> n.outgoing,
      incoming   |-> [k \in DOMAIN n.incoming |-> None] ]

\* impl Clone for Neuron (neuron.rs:98-118)
Neuron_clone(n) ==
    [ innov      |-> n.innov,
      curr_value |-> None,
      prev_value |-> None,
      cell_state |-> None,
      node_type  |-> n.node_type,
      activation |-> n.activation,
      outgoing   |-> n.outgoing,
      incoming   |-> [k \in DOMAIN n.incoming |-> n.incoming[k]] ]

cellFrame == UNCHANGED <<cellVars, histVars>>

IsReady ==
    /\ can_activate(incoming) => fired < MaxFire
    /\ LET r == is_ready(Self)
       IN  /\ Becomes(r.node)
           /\ nlast' = [op |-> "is_ready", ret |-> r.ret]
           /\ fired' = IF r.ret THEN fired + 1 ELSE fired
    /\ cellFrame

ResetNode ==
    /\ Becomes(reset_node(Self))
    /\ nlast' = [op |-> "reset_node",
                 ret |-> \E k \in DOMAIN incoming : IsSome(incoming[k])]
    /\ fired' = 0
    /\ cellFrame

\* an upstream node fires and the network stores its value in the slot
Receive ==
    /\ \E src \in DOMAIN incoming, x \in Delivered :
          incoming' = [incoming EXCEPT ![src] = Some(x)]
    /\ nlast' = [op |-> "receive", ret |-> FALSE]
    /\ UNCHANGED <<innov, curr_value, prev_value, cell_state, node_type,
                   activation, outgoing, fired>>
    /\ cellFrame

\* the network seeds the value of a node (an input node's value)
SetValue ==
    /\ \E x \in Delivered : curr_value' = Some(x)
    /\ nlast' = [op |-> "set_value", ret |-> FALSE]
    /\ UNCHANGED <<innov, prev_value, cell_state, node_type, activation,
                   outgoing, incoming, fired>>
    /\ cellFrame

NeuronClone ==
    /\ nlast' = [op |-> "clone", ret |-> Neuron_clone(Self)]
    /\ UNCHANGED <<neuronVars, fired>>
    /\ cellFrame

NeuronInit ==
    /\ LSTM_new(<<2, 3, 1>>)
    /\ \E kind \in NodeTypes, sources \in SUBSET Sources :
          Neuron_new(3, kind, "Sigmoid", <<7>>, sources)

NeuronNext ==
    \/ IsReady
    \/ ResetNode
    \/ Receive
    \/ SetValue
    \/ NeuronClone

NeuronSpec == NeuronInit /\ [][NeuronNext]_vars

-----------------------------------------------------------------------------
(* Claims about the LSTM cell, checked under Spec.                         *)

\* the five per-step sequences of the ledger all have n entries
LedgerHas(n) ==
    /\ Len(states.f_gate_output) = n
    /\ Len(states.i_gate_output) = n
    /\ Len(states.s_gate_output) = n
    /\ Len(states.o_gate_output) = n
    /\ Len(states.memory_states) = n

\* only forward calls have been made since construction or the last reset
\* (clone and crossover, which only read the cell, aside)
OnlyForwardSoFar == unwind.phase = "fwd"

\* C1 as stated: from a fresh or reset cell, after n forward calls each of
\* the five per-step sequences has n entries and states.index = n.
C1_LedgerCountsForwardCalls ==
    OnlyForwardSoFar => LedgerHas(calls) /\ states.index = calls

\* C1 as amended: from a fresh or reset cell, after n forward calls of
\* which d returned early because an internal gate (forget, input, output,
\* candidate) failed, each of the five per-step sequences has n - d entries
\* and states.index = n - d; so n calls in which no internal gate fails
\* leave exactly n entries and index = n.
C1_LedgerCountsRecordedForwardCalls ==
    OnlyForwardSoFar =>
        LedgerHas(calls - dropped) /\ states.index = calls - dropped

C1_Witness ==
    /\ OnlyForwardSoFar
    /\ calls = 2
    /\ dropped = 0
    /\ LedgerHas(2)
    /\ last.op = "forward"

\* C2 as stated: step_back at a time index t >= states.index reports None.
C2_NoneAtOrPastIndex ==
    (last.op = "step_back" /\ last.t >= states.index) => last.ret = None

\* C2 as amended: step_back at a time index t >= the number of recorded
\* forward steps (the length of memory_states, which is states.index only
\* as long as set_trace_index has not moved it) reports None, also when
\* previous-derivative entries have been seeded; every read of the ledger
\* is bounds-checked.
C2_NoneAtOrPastLedgerEnd ==
    (last.op = "step_back" /\ last.t >= Len(states.memory_states)) =>
        last.ret = None

C2_Witness ==
    /\ last.op = "step_back"
    /\ Len(states.memory_states) = 1
    /\ last.t >= 1
    /\ last.n = output_size
    /\ Len(states.d_prev_hidden) >= 1
    /\ Len(states.d_prev_memory) >= 1
    /\ last.ret = None

C9_ResetClearsAndIsIdempotent ==
    /\ [](last.op = "reset" =>
            /\ memory = Zeros(memory_size)
            /\ hidden = Zeros(memory_size)
            /\ Len(memory) = memory_size
            /\ Len(hidden) = memory_size
            /\ LedgerHas(0)
            /\ states.errors = <<>>
            /\ states.d_prev_memory = <<>>
            /\ states.d_prev_hidden = <<>>
            /\ states.index = 0)
    /\ [][(last.op = "reset" /\ last'.op = "reset") => UNCHANGED cellVars]_vars

\* a reset of a cell that had two ledger entries and derivative entries
C9_Witness ==
    /\ last.op = "reset"
    /\ last.n = 2
    /\ last.t >= 1
    /\ hidden = Zeros(memory_size)

\* C10: the cell produced by clone, and the child of a successful
\* crossover, has the source's three sizes, zero memory and hidden of
\* length memory_size and an empty ledger with index 0; the source's
\* memory, hidden and ledger are unchanged by the call.
C10_CloneIsFreshAndSourceUntouched ==
    /\ []((last.op \in {"clone", "crossover"} /\ IsSome(last.ret)) =>
            LET c == Unwrap(last.ret)
            IN  /\ c.input_size = input_size
                /\ c.memory_size = memory_size
                /\ c.output_size = output_size
                /\ c.memory = Zeros(memory_size)
                /\ c.hidden = Zeros(memory_size)
                /\ c.states = LSTMState_new)
    /\ [][last'.op \in {"clone", "crossover"} =>
            UNCHANGED <<memory, hidden, states>>]_vars

\* a clone of a cell with forward and backward history
C10_Witness ==
    /\ last.op = "clone"
    /\ IsSome(last.ret)
    /\ Len(states.memory_states) = 2
    /\ Len(states.d_prev_hidden) >= 1
    /\ memory /= Zeros(memory_size)
    /\ hidden /= Zeros(memory_size)

\* C11 as stated: in every reachable state the number of forward-step
\* ledger entries (the length of memory_states and of each gate-output
\* sequence) equals states.index.
C11_LedgerLengthIsIndex == LedgerHas(states.index)

\* C11 as amended: in every reachable state the five per-step sequences
\* have one common length; states.index equals it at construction and
\* after reset, and every operation other than set_trace_index keeps the
\* difference between states.index and that length (forward moves both by
\* one or neither), so the two are equal until set_trace_index moves
\* states.index, which it sets to its argument without touching the ledger.
C11_IndexLeavesLedgerLengthOnlyBySetTraceIndex ==
    /\ [](LedgerHas(Len(states.memory_states)))
    /\ [](last.op \in {"new", "reset"} => LedgerHas(states.index))
    /\ [][last'.op \notin {"set_trace_index", "reset"} =>
            states'.index - Len(states'.memory_states)
                = states.index - Len(states.memory_states)]_vars
    /\ [][last'.op = "set_trace_index" =>
            /\ Len(states'.memory_states) = Len(states.memory_states)
            /\ LedgerHas(Len(states.memory_states))']_vars

\* a second step was recorded after a backward pass over the first, and
\* states.index still counts the ledger entries
C11_Witness ==
    /\ last.op = "forward"
    /\ LedgerHas(2)
    /\ states.index = 2
    /\ calls = 2
    /\ dropped = 0
    /\ Len(states.d_prev_hidden) >= 2

\* C12: a forward call whose input length differs from input_size, and a
\* backward or step_back call whose error length differs from output_size,
\* returns None and leaves memory, hidden and the ledger as they were.
C12_WrongLengthRejectedAtBoundary ==
    [][( \/ (last'.op = "forward" /\ last'.n /= input_size)
         \/ (last'.op \in {"backward", "step_back"}
                /\ last'.n /= output_size) ) =>
            /\ last'.ret = None
            /\ UNCHANGED <<memory, hidden, states>>]_vars

\* C13: in a sequence of backward calls (backward or step_back) that unwind
\* successive time steps, each call after the first reads as its previous
\* hidden-derivative and previous memory-derivative the vectors that the
\* call before it pushed onto d_prev_hidden and d_prev_memory, which are
\* the last entries of the two lists when the later call is made; only the
\* first call reads the zero vectors.
C13_LaterCallsReadWhatWasPushed ==
    [][( /\ last'.op \in {"backward", "step_back"}
         /\ IsSome(last'.ret)
         /\ IsSome(chain.t)
         /\ last'.t = Unwrap(chain.t) - 1 ) =>
            chain'.read = << Last(states.d_prev_hidden),
                            Last(states.d_prev_memory) >>]_vars

\* C14: every backward call (backward or step_back) appends exactly one
\* entry, the error vector it was given, to states.errors, so that the
\* sequence has k entries after k such calls since the last reset.
C14_ErrorsGainOnePerBackwardCall ==
    [][last'.op \in {"backward", "step_back"} =>
            /\ Len(states'.errors) = Len(states.errors) + 1
            /\ Len(states'.errors[Len(states'.errors)]) = last'.n]_vars

\* C15: a backward or step_back call that unwinds forward step t computes
\* the forget-gate gradient from the memory as it was before step t: the
\* ledger memory of step t - 1, or the zero vector for t = 0.
C15_ForgetGradientUsesPreviousMemory ==
    (last.op \in {"backward", "step_back"} /\ IsSome(last.ret)) =>
        chain.c_old = Some(IF last.t = 0 THEN Zeros(memory_size)
                           ELSE states.memory_states[last.t])

\* C16: a forward call that returns a vector has, for the outputs f, i, g,
\* o of its four internal gates, set memory to old memory * f + g * i
\* element-wise and then hidden to o * tanh(the updated memory), and has
\* appended one ledger entry holding f, i, g, o and the updated memory: the
\* last element of memory_states is the memory field.
C16_ForwardUpdatesMemoryThenHiddenAndRecords ==
    [][(last'.op = "forward" /\ IsSome(last'.ret)) =>
        \E d \in ForwardResults :
            /\ InternalGatesOk(d)
            /\ LET f == Unwrap(d.f)
                   i == Unwrap(d.i)
                   g == Unwrap(d.g)
                   o == Unwrap(d.o)
                   updated == [k \in 1..memory_size |->
                                  memory[k] * f[k] + g[k] * i[k]]
               IN  /\ memory' = updated
                   /\ hidden' = [k \in 1..memory_size |->
                                    o[k] * Tahn(updated[k])]
                   /\ states'.f_gate_output = Append(states.f_gate_output, f)
                   /\ states'.i_gate_output = Append(states.i_gate_output, i)
                   /\ states'.s_gate_output = Append(states.s_gate_output, g)
                   /\ states'.o_gate_output = Append(states.o_gate_output, o)
                   /\ states'.memory_states =
                          Append(states.memory_states, updated)
                   /\ Last(states'.memory_states) = Some(memory')
                   /\ states'.index = states.index + 1]_vars

\* the second forward step of a cell, after which the memory holds a value
\* that tanh changes and differs from the memory recorded for the first step
C16_Witness ==
    /\ last.op = "forward"
    /\ IsSome(last.ret)
    /\ LedgerHas(2)
    /\ \E k \in 1..memory_size : memory[k] >= 2 /\ hidden[k] = 1
    /\ states.memory_states[1] /= states.memory_states[2]
    /\ states.memory_states[2] = memory

\* C17: backward unwinds the step at states.index.  Called while
\* states.index is the number of recorded steps, as it is after n >= 0
\* forward calls with no set_trace_index in between, it returns None, and
\* it has by then pushed one zero vector onto d_prev_memory and onto
\* d_prev_hidden; the rest of the ledger, memory and hidden are unchanged.
C17_BackwardAtLedgerEndFailsAfterPushing ==
    [][(last'.op = "backward" /\ states.index = Len(states.memory_states)) =>
        /\ last'.ret = None
        /\ last'.t = states.index
        /\ states' = [ states EXCEPT
                         !.d_prev_memory = Append(@, Zeros(memory_size)),
                         !.d_prev_hidden = Append(@, Zeros(memory_size)) ]
        /\ states' /= states
        /\ UNCHANGED <<memory, hidden>>]_vars

\* backward right after two forward calls on a fresh cell
C17_Witness ==
    /\ last.op = "backward"
    /\ last.ret = None
    /\ last.t = 2
    /\ calls = 2
    /\ dropped = 0
    /\ LedgerHas(2)
    /\ states.index = 2
    /\ states.d_prev_memory = << Zeros(memory_size) >>
    /\ states.d_prev_hidden = << Zeros(memory_size) >>

\* C18: a forward call in which one of the four internal gates (forget,
\* input, output, candidate) fails returns None and leaves memory, hidden
\* and the whole ledger, index included, as they were; a forward call in
\* which only the projection gate fails returns None as well, but with
\* memory and hidden updated, one entry appended to each of the five
\* per-step sequences and index incremented.
C18_ForwardFailureBeforeOrAfterUpdate ==
    [][last'.op = "forward" =>
        /\ dropped' = dropped + 1 =>
              /\ last'.ret = None
              /\ UNCHANGED <<memory, hidden, states>>
        /\ (dropped' = dropped /\ last'.ret = None) =>
              \E d \in ForwardResults :
                  /\ InternalGatesOk(d)
                  /\ d.v = None
                  /\ memory' = [k \in 1..memory_size |->
                                   memory[k] * Unwrap(d.f)[k]
                                       + Unwrap(d.g)[k] * Unwrap(d.i)[k]]
                  /\ hidden' = [k \in 1..memory_size |->
                                   Unwrap(d.o)[k] * Tahn(memory'[k])]
                  /\ states'.memory_states =
                         Append(states.memory_states, memory')
                  /\ Len(states'.f_gate_output) = Len(states.f_gate_output) + 1
                  /\ Len(states'.i_gate_output) = Len(states.i_gate_output) + 1
                  /\ Len(states'.s_gate_output) = Len(states.s_gate_output) + 1
                  /\ Len(states'.o_gate_output) = Len(states.o_gate_output) + 1
                  /\ states'.index = states.index + 1
                  /\ memory' /= memory]_vars

\* the only forward call made so far failed in the projection gate and
\* left its step recorded
C18_Witness ==
    /\ last.op = "forward"
    /\ last.ret = None
    /\ OnlyForwardSoFar
    /\ calls = 1
    /\ dropped = 0
    /\ LedgerHas(1)
    /\ states.index = 1
    /\ memory /= Zeros(memory_size)
    /\ hidden /= Zeros(memory_size)

\* C19: in every reachable state d_prev_hidden and d_prev_memory have the
\* same number of entries, and no operation other than reset (forward,
\* backward, step_back, set_trace_index, a seeding push, clone, crossover)
\* makes that number smaller; reset makes it zero.
C19_DerivativeListsGrowTogether ==
    /\ [](Len(states.d_prev_hidden) = Len(states.d_prev_memory))
    /\ [][last'.op /= "reset" =>
            /\ Len(states'.d_prev_hidden) >= Len(states.d_prev_hidden)
            /\ Len(states'.d_prev_memory) >= Len(states.d_prev_memory)]_vars
    /\ [][last'.op = "reset" =>
            Len(states'.d_prev_hidden) = 0 /\ Len(states'.d_prev_memory) = 0]_vars

\* a backward call that returned a vector, made on a cell whose lists
\* already held an entry: three entries on each list
C19_Witness ==
    /\ last.op = "backward"
    /\ IsSome(last.ret)
    /\ Len(states.d_prev_hidden) = 3
    /\ Len(states.d_prev_memory) = 3

-----------------------------------------------------------------------------
(* Claims about the Neuron, checked under NeuronSpec.                      *)

TwoEdges == DOMAIN incoming = {1, 2}

\* C4 as stated: within one tick a neuron with two incoming edges returns
\* true from is_ready exactly once, on the first call made with both slots
\* set; every other call in the tick returns false.
C4_FiresOncePerTick ==
    (TwoEdges /\ nlast.op = "is_ready") =>
        (nlast.ret <=> (can_activate(incoming) /\ fired = 1))

\* C4 as amended: within one tick a neuron with two incoming edges returns
\* false from is_ready until both slots are set, and from then on every
\* is_ready call of the tick returns true.
C4_FiresWheneverBothSlotsSet ==
    (TwoEdges /\ nlast.op = "is_ready") =>
        (nlast.ret <=> can_activate(incoming))

\* the second is_ready call of a tick that returned true
C4_Witness ==
    /\ TwoEdges
    /\ nlast.op = "is_ready"
    /\ nlast.ret
    /\ fired = 2

\* C5: is_ready fires (returns true and computes curr_value) exactly when
\* the incoming map is non-empty and every entry of it is set.
C5_FiresIffNonEmptyAndAllSet ==
    nlast.op = "is_ready" =>
        (nlast.ret <=> (DOMAIN incoming /= {} /\ can_activate(incoming)))

\* C6: an is_ready call that returns false changes no field of the neuron.
C6_NotReadyMutatesNothing ==
    [][(nlast'.op = "is_ready" /\ ~nlast'.ret) => UNCHANGED neuronVars]_vars

\* is_ready returned false on a neuron that holds a value and has one slot
\* filled and one slot empty
C6_Witness ==
    /\ nlast.op = "is_ready"
    /\ ~nlast.ret
    /\ IsSome(curr_value)
    /\ \E k \in DOMAIN incoming : IsSome(incoming[k])
    /\ \E k \in DOMAIN incoming : ~IsSome(incoming[k])

\* C7: after reset_node, prev_value is the curr_value held before the call,
\* curr_value is unset, every incoming slot is unset, and the keys of
\* incoming, outgoing, innov, the node kind and the activation are unchanged.
C7_ResetNodeRollsAndClears ==
    [][nlast'.op = "reset_node" =>
        /\ prev_value' = curr_value
        /\ curr_value' = None
        /\ \A k \in DOMAIN incoming' : incoming'[k] = None
        /\ DOMAIN incoming' = DOMAIN incoming
        /\ UNCHANGED <<outgoing, innov, node_type, activation>>]_vars

\* reset_node was called on a neuron that held a value and a filled slot
C7_Witness ==
    /\ nlast.op = "reset_node"
    /\ nlast.ret
    /\ IsSome(prev_value)
    /\ TwoEdges

\* C8: reset_node keeps the cell_state of a node kind that carries memory
\* and clears it only for the kinds that do not.
C8_MemoryKindKeepsCellState ==
    [][nlast'.op = "reset_node" =>
        IF CarriesMemory(node_type)
        THEN cell_state' = cell_state
        ELSE cell_state' = None]_vars

\* C20: the clone of a neuron has the source's innov, node kind, activation,
\* outgoing list and incoming keys, has curr_value, prev_value and
\* cell_state unset, and holds in each incoming slot the value (set or
\* unset) of the source's slot; so the clone of a neuron whose slots are
\* all set returns true from is_ready before any value is delivered to it.
C20_CloneKeepsSlotValues ==
    nlast.op = "clone" =>
        LET c == nlast.ret
        IN  /\ c.innov = innov
            /\ c.node_type = node_type
            /\ c.activation = activation
            /\ c.outgoing = outgoing
            /\ DOMAIN c.incoming = DOMAIN incoming
            /\ c.curr_value = None
            /\ c.prev_value = None
            /\ c.cell_state = None
            /\ \A k \in DOMAIN incoming : c.incoming[k] = incoming[k]
            /\ can_activate(incoming) =>
                  /\ is_ready(c).ret
                  /\ IsSome(is_ready(c).node.curr_value)

\* the clone of a neuron that has fired in this tick and the tick before:
\* both slots set, a current and a previous value
C20_Witness ==
    /\ nlast.op = "clone"
    /\ TwoEdges
    /\ can_activate(incoming)
    /\ IsSome(curr_value)
    /\ IsSome(prev_value)
    /\ nlast.ret.curr_value = None
    /\ is_ready(nlast.ret).ret

====
